---- MODULE Spec2Model ----
(***************************************************************************)
(* LiveFile (src/src/components/LiveFile.js): a cached view of one file,   *)
(* refreshed by a debounced fs.watch callback and an asynchronous          *)
(* fs.readFile.  The clock is counted in ticks; one tick stands for 50 ms  *)
(* in the worked example of the documentation (watcher_delay = 100 ms is   *)
(* two ticks).  The gate only subtracts and compares timestamps, so the    *)
(* unit does not matter to it.                                             *)
(***************************************************************************)
EXTENDS Integers, Sequences, FiniteSets, TLC

\* Bounds of the model.
MaxTime == 3
MaxDelay == 2
MaxVersion == 2

VARIABLES
    now,            \* Date.now()
    watcher_delay,  \* #watcher_delay
    last_update,    \* #last_update
    content,        \* #content
    watcher,        \* #watcher: the FSWatcher, "open" or "closed"
    handlers,       \* #handlers
    renderer,       \* #renderer
    file,           \* the version of the file on disk
    dirty,          \* the file changed and fs.watch has not yet called back
    inflight,       \* the fs.readFile calls whose callback has not run
    issued,         \* history: the number of fs.readFile calls made
    last_accept,    \* history: the clock at the last accepted watch callback, -1 if none
    accepted,       \* history: the number of watch callbacks the gate let through
    triggered,      \* history: the watch callback has run at least once
    src,            \* history: the read that supplied the current content
    read_failed,    \* history: some read has failed
    close_calls,    \* history: the number of calls of #watcher.close()
    step            \* history: the last operation and the handler calls it made

vars == <<now, watcher_delay, last_update, content, watcher, handlers, renderer, file, dirty,
          inflight, issued, last_accept, accepted, triggered, src, read_failed,
          close_calls, step>>

----------------------------------------------------------------------------
\* Values.

Undefined == "undefined"          \* a field that was never assigned
Empty == ""                       \* the '' that _destroy stores
Custom == "custom"                \* a string a caller passes to set_content
ReadError == "EIO"                \* the error fs.readFile passes to its callback
WatchError == "EWATCH"            \* the error the FSWatcher emits

Delays == 0..MaxDelay
Versions == 0..MaxVersion
FileContent(v) == "v" \o ToString(v)   \* what the file holds at version v
FileContents == {FileContent(v) : v \in Versions}
VersionOf(c) == CHOOSE v \in Versions : FileContent(v) = c

DefaultHandler == "noop"          \* (content) => {} and (error) => {}
UserHandlers == {"h1", "undef"}   \* a function, and undefined
Kinds == {"reload", "error", "bogus", "toString"}
InheritedKeys == {"toString"}     \* keys #handlers inherits from Object.prototype

Renderers == {"r1", "r2"}         \* functions (content, options) => output
NotAFunction == "undef"           \* undefined, or any value that cannot be called
Options == "options"              \* the argument of render

NoRead == [id |-> 0, lo |-> 0]

Min(a, b) == IF a < b THEN a ELSE b

\* One call of a handler slot: which function was bound, its argument, and the
\* value of #content at the moment of the call.
Call(kind, h, arg, seen) == [kind |-> kind, handler |-> h, arg |-> arg, seen |-> seen]

\* The record of the last operation: what it was, the read it completed, its
\* outcome (accepted, succeeded, did not throw) and the handler calls it made.
\* A read's callback also records the content it found and the read that had
\* supplied it; a watch callback records whether it was the first one; handle
\* records its arguments; render records the calls of the renderer.
Did(op, ok, calls) ==
    [op |-> op, id |-> 0, ok |-> ok, calls |-> calls,
     pre |-> "-", pre_src |-> 0, first |-> FALSE,
     kind |-> "-", h |-> "-", rendered |-> <<>>]
DidRead(r, ok, calls) ==
    [op |-> "read_done", id |-> r.id, ok |-> ok, calls |-> calls,
     pre |-> content, pre_src |-> src.id, first |-> FALSE,
     kind |-> "-", h |-> "-", rendered |-> <<>>]
DidTrigger(ok) ==
    [op |-> "trigger", id |-> 0, ok |-> ok, calls |-> <<>>,
     pre |-> "-", pre_src |-> 0, first |-> ~triggered,
     kind |-> "-", h |-> "-", rendered |-> <<>>]
DidHandle(kind, h, ok) ==
    [op |-> "handle", id |-> 0, ok |-> ok, calls |-> <<>>,
     pre |-> "-", pre_src |-> 0, first |-> FALSE,
     kind |-> kind, h |-> h, rendered |-> <<>>]
DidRender(ok, rendered) ==
    [op |-> "render", id |-> 0, ok |-> ok, calls |-> <<>>,
     pre |-> "-", pre_src |-> 0, first |-> FALSE,
     kind |-> "-", h |-> "-", rendered |-> rendered]

object == <<watcher_delay, last_update, content, watcher, handlers, renderer>>
disk == <<file, dirty>>
reads == <<inflight, issued>>
gate_history == <<last_accept, accepted, triggered>>

----------------------------------------------------------------------------
\* The program.

\* A gate that opens when exactly watcher_delay has elapsed.
delay_check_inclusive(t, lu, d) == t - lu >= d

\* _delay_check, line 83: Date.now() - last_update > watcher_delay
delay_check(t, lu, d) == t - lu > d

\* _reload_content, lines 114-130: one more fs.readFile in flight.  lo is v, the
\* version of the file when the read starts; the read returns a version the
\* file held between its start and its callback.
reload_content(rs, id, v) == rs \cup {[id |-> id, lo |-> v]}

\* A constructor that asks the gate before its first read.
constructor_gated(d, t) ==
    [watcher_delay |-> d,
     last_update |-> t - d,
     watcher |-> "open",
     inflight |-> IF delay_check(t, t - d, d) THEN reload_content({}, 1, 0) ELSE {}]

\* A constructor that takes its own read for an accepted reload.
constructor_counts(d, t) ==
    [watcher_delay |-> d,
     last_update |-> t,
     watcher |-> "open",
     inflight |-> reload_content({}, 1, 0)]

\* constructor, lines 15-22, at time t with delay d.
constructor(d, t) ==
    [watcher_delay |-> d,
     last_update |-> t - d,
     watcher |-> "open",
     inflight |-> reload_content({}, 1, 0)]

\* new LiveFile({path, watcher_delay: d, renderer: r}) at time 0.
Construct(d, r) ==
    LET o == constructor(d, 0) IN
    /\ now = 0
    /\ watcher_delay = o.watcher_delay
    /\ last_update = o.last_update
    /\ content = Undefined
    /\ watcher = o.watcher
    /\ handlers = [k \in {"reload", "error"} |-> DefaultHandler]
    /\ renderer = r
    /\ file = 0
    /\ dirty = FALSE
    /\ inflight = o.inflight
    /\ issued = Cardinality(o.inflight)
    /\ last_accept = -1
    /\ accepted = 0
    /\ triggered = FALSE
    /\ src = NoRead
    /\ read_failed = FALSE
    /\ close_calls = 0
    /\ step = Did("new", TRUE, <<>>)

Init == \E d \in Delays : Construct(d, "r1")

\* The clock advances.
Tick ==
    /\ now < MaxTime
    /\ now' = now + 1
    /\ step' = Did("tick", TRUE, <<>>)
    /\ UNCHANGED <<object, disk, reads, gate_history, src, read_failed, close_calls>>

\* Somebody writes the file; fs.watch owes a callback.
FileModify ==
    /\ file < MaxVersion
    /\ file' = file + 1
    /\ dirty' = TRUE
    /\ step' = Did("modify", TRUE, <<>>)
    /\ UNCHANGED <<now, object, reads, gate_history, src, read_failed, close_calls>>

\* A listener that checks the gate without touching last_update.
WatchCallback_no_touch ==
    /\ watcher = "open"
    /\ LET result == delay_check(now, last_update, watcher_delay) IN
       /\ IF result
          THEN /\ inflight' = reload_content(inflight, issued + 1, file)
               /\ issued' = issued + 1
               /\ last_accept' = now
               /\ accepted' = accepted + 1
               /\ UNCHANGED <<last_update, now>>
          ELSE UNCHANGED <<last_update, now, inflight, issued, last_accept, accepted>>
       /\ step' = DidTrigger(result)
    /\ dirty' = FALSE
    /\ triggered' = TRUE
    /\ UNCHANGED <<watcher_delay, content, watcher, handlers, renderer, file, src,
                   read_failed, close_calls>>

\* A listener that stamps last_update with the time of a rejected check too.
WatchCallback_touch_always ==
    /\ watcher = "open"
    /\ LET result == delay_check(now, last_update, watcher_delay) IN
       /\ IF result
          THEN /\ inflight' = reload_content(inflight, issued + 1, file)
               /\ issued' = issued + 1
               /\ last_accept' = now
               /\ accepted' = accepted + 1
          ELSE UNCHANGED <<inflight, issued, last_accept, accepted>>
       /\ last_update' = now
       /\ now' = now
       /\ step' = DidTrigger(result)
    /\ dirty' = FALSE
    /\ triggered' = TRUE
    /\ UNCHANGED <<watcher_delay, content, watcher, handlers, renderer, file, src,
                   read_failed, close_calls>>

\* The fs.watch listener, lines 101-103.  _delay_check reads Date.now() twice
\* (lines 83 and 84): the clock may advance between the two reads.
WatchCallback ==
    /\ watcher = "open"
    /\ LET result == delay_check(now, last_update, watcher_delay) IN
       /\ IF result
          THEN \E t2 \in now..Min(now + 1, MaxTime) :
                  /\ last_update' = t2
                  /\ now' = t2
                  /\ inflight' = reload_content(inflight, issued + 1, file)
                  /\ issued' = issued + 1
                  /\ last_accept' = now
                  /\ accepted' = accepted + 1
          ELSE UNCHANGED <<last_update, now, inflight, issued, last_accept, accepted>>
       /\ step' = DidTrigger(result)
    /\ dirty' = FALSE
    /\ triggered' = TRUE
    /\ UNCHANGED <<watcher_delay, content, watcher, handlers, renderer, file, src,
                   read_failed, close_calls>>

\* An error binding that gives up the watcher after reporting the error.
WatcherError_closes ==
    /\ watcher = "open"
    /\ watcher' = "closed"
    /\ step' = Did("watch_error", FALSE,
                   <<Call("error", handlers["error"], WatchError, content)>>)
    /\ UNCHANGED <<now, watcher_delay, last_update, content, handlers, renderer, disk,
                   reads, gate_history, src, read_failed, close_calls>>

\* The FSWatcher emits 'error', line 107.
WatcherError ==
    /\ watcher = "open"
    /\ step' = Did("watch_error", FALSE,
                   <<Call("error", handlers["error"], WatchError, content)>>)
    /\ UNCHANGED <<now, object, disk, reads, gate_history, src, read_failed,
                   close_calls>>

\* A callback that stores its content argument before it looks at the error.
ReadFailed_stores(r) ==
    /\ content' = Undefined
    /\ src' = src
    /\ read_failed' = TRUE
    /\ step' = DidRead(r, FALSE,
                       <<Call("error", handlers["error"], ReadError, Undefined)>>)

\* The fs.readFile callback with an error, line 123.
ReadFailed(r) ==
    /\ content' = content
    /\ src' = src
    /\ read_failed' = TRUE
    /\ step' = DidRead(r, FALSE,
                       <<Call("error", handlers["error"], ReadError, content)>>)

\* A callback that calls the reload handler it captured when the object was
\* constructed.
ReadSucceeded_bound_early(r, data) ==
    /\ content' = data
    /\ src' = [id |-> r.id, lo |-> r.lo]
    /\ read_failed' = read_failed
    /\ step' = DidRead(r, TRUE, <<Call("reload", DefaultHandler, data, data)>>)

\* A callback that fires the reload event before it stores the content.
ReadSucceeded_event_first(r, data) ==
    /\ content' = data
    /\ src' = [id |-> r.id, lo |-> r.lo]
    /\ read_failed' = read_failed
    /\ step' = DidRead(r, TRUE, <<Call("reload", handlers["reload"], data, content)>>)

\* A callback that drops the result of a read overtaken by a later one.
ReadSucceeded_in_order(r, data) ==
    /\ content' = IF r.id > src.id THEN data ELSE content
    /\ src' = IF r.id > src.id THEN [id |-> r.id, lo |-> r.lo] ELSE src
    /\ read_failed' = read_failed
    /\ step' = DidRead(r, TRUE, <<Call("reload", handlers["reload"], data, content')>>)

\* A callback that fires the reload event and forgets to store the content.
ReadSucceeded_no_store(r, data) ==
    /\ content' = content
    /\ src' = [id |-> r.id, lo |-> r.lo]
    /\ read_failed' = read_failed
    /\ step' = DidRead(r, TRUE, <<Call("reload", handlers["reload"], data, content)>>)

\* The fs.readFile callback with the file's content, lines 126-127.
ReadSucceeded(r, data) ==
    /\ content' = data
    /\ src' = [id |-> r.id, lo |-> r.lo]
    /\ read_failed' = read_failed
    /\ step' = DidRead(r, TRUE, <<Call("reload", handlers["reload"], data, data)>>)

\* A callback that reads the file again when the read failed.
ReadCallback_retries ==
    \E r \in inflight :
        /\ \/ /\ ReadFailed(r)
              /\ inflight' = reload_content(inflight \ {r}, issued + 1, file)
              /\ issued' = issued + 1
           \/ /\ \E v \in r.lo..file : ReadSucceeded(r, FileContent(v))
              /\ inflight' = inflight \ {r}
              /\ issued' = issued
        /\ UNCHANGED <<now, watcher_delay, last_update, watcher, handlers, renderer,
                       disk, gate_history, close_calls>>

\* The fs.readFile callback, lines 121-128.
ReadCallback ==
    \E r \in inflight :
        /\ inflight' = inflight \ {r}
        /\ \/ ReadFailed(r)
           \/ \E v \in r.lo..file : ReadSucceeded(r, FileContent(v))
        /\ UNCHANGED <<now, watcher_delay, last_update, watcher, handlers, renderer,
                       disk, issued, gate_history, close_calls>>

\* A set_content that announces the new content as a reload.
set_content_fires ==
    /\ content' = Custom
    /\ src' = NoRead
    /\ step' = Did("set_content", TRUE,
                   <<Call("reload", handlers["reload"], Custom, Custom)>>)
    /\ UNCHANGED <<now, watcher_delay, last_update, watcher, handlers, renderer, disk,
                   reads, gate_history, read_failed, close_calls>>

\* set_content, lines 31-33.
set_content ==
    /\ content' = Custom
    /\ src' = NoRead
    /\ step' = Did("set_content", TRUE, <<>>)
    /\ UNCHANGED <<now, watcher_delay, last_update, watcher, handlers, renderer, disk,
                   reads, gate_history, read_failed, close_calls>>

\* this.#handlers[type], line 66: an own key, a key of Object.prototype, or
\* undefined.
Lookup(hs, kind) ==
    IF kind \in DOMAIN hs THEN hs[kind]
    ELSE IF kind \in InheritedKeys THEN "inherited"
    ELSE "undef"

\* handle, lines 65-70.
handle ==
    \E kind \in Kinds, h \in UserHandlers :
        /\ IF Lookup(handlers, kind) = "undef"
           THEN /\ handlers' = handlers
                /\ step' = DidHandle(kind, h, FALSE)
           ELSE /\ handlers' = [k \in DOMAIN handlers \cup {kind} |->
                                   IF k = kind THEN h ELSE handlers[k]]
                /\ step' = DidHandle(kind, h, TRUE)
        /\ UNCHANGED <<now, watcher_delay, last_update, content, watcher, renderer,
                       disk, reads, gate_history, src, read_failed, close_calls>>

\* set_renderer, lines 40-47.
set_renderer ==
    \E r \in Renderers \cup {NotAFunction} :
        /\ IF r \in Renderers
           THEN /\ renderer' = r
                /\ step' = Did("set_renderer", TRUE, <<>>)
           ELSE /\ renderer' = renderer
                /\ step' = Did("set_renderer", FALSE, <<>>)
        /\ UNCHANGED <<now, watcher_delay, last_update, content, watcher, handlers, disk,
                       reads, gate_history, src, read_failed, close_calls>>

\* A render that reports the renderer's exception through the error handler.
render_reports ==
    /\ IF renderer \in Renderers
       THEN \E ok \in BOOLEAN :
               step' = [DidRender(ok, <<[renderer |-> renderer, content |-> content,
                                         options |-> Options]>>)
                           EXCEPT !.calls =
                               IF ok THEN <<>>
                               ELSE <<Call("error", handlers["error"], "ERENDER",
                                           content)>>]
       ELSE step' = DidRender(FALSE, <<>>)
    /\ UNCHANGED <<now, object, disk, reads, gate_history, src, read_failed,
                   close_calls>>

\* render, lines 55-57.  The renderer returns (ok) or throws; without a
\* renderer the call itself throws and nothing is invoked.
render ==
    /\ IF renderer \in Renderers
       THEN \E ok \in BOOLEAN :
               step' = DidRender(ok, <<[renderer |-> renderer, content |-> content,
                                        options |-> Options]>>)
       ELSE step' = DidRender(FALSE, <<>>)
    /\ UNCHANGED <<now, object, disk, reads, gate_history, src, read_failed,
                   close_calls>>

\* _destroy, lines 136-139.  close_calls counts to "twice or more".
destroy ==
    /\ watcher' = "closed"
    /\ close_calls' = Min(close_calls + 1, 2)
    /\ content' = Empty
    /\ src' = NoRead
    /\ step' = Did("destroy", TRUE, <<>>)
    /\ UNCHANGED <<now, watcher_delay, last_update, handlers, renderer, disk, reads,
                   gate_history, read_failed>>

\* Every operation but handle, which NextHandlers below adds.
Next ==
    \/ Tick
    \/ FileModify
    \/ WatchCallback
    \/ WatcherError
    \/ ReadCallback
    \/ set_content
    \/ destroy

Spec == Init /\ [][Next]_vars

\* The handler table under every operation, while the clock stands at the time
\* of construction (the bindings multiply every state of Spec by nine).
NextHandlers ==
    \/ handle
    \/ FileModify
    \/ WatchCallback
    \/ WatcherError
    \/ ReadCallback
    \/ set_content
    \/ destroy

SpecHandlers == Init /\ [][NextHandlers]_vars

\* The renderer under every operation but handle, with or without a renderer
\* given to the constructor, while the clock stands at the time of construction.
InitRender == \E d \in Delays, r \in {"r1", NotAFunction} : Construct(d, r)

NextRender ==
    \/ render
    \/ set_renderer
    \/ FileModify
    \/ WatchCallback
    \/ WatcherError
    \/ ReadCallback
    \/ set_content
    \/ destroy

SpecRender == InitRender /\ [][NextRender]_vars

----------------------------------------------------------------------------
\* Properties.

\* C1. Debounce gate: a watch callback is accepted, and issues a read, if and
\* only if now - last_update > watcher_delay, with last_update as it is when the
\* callback runs; otherwise it issues no read.
C1_DebounceGate ==
    [][step'.op = "trigger" =>
         /\ step'.ok <=> (now - last_update > watcher_delay)
         /\ (now - last_update > watcher_delay) =>
               /\ issued' = issued + 1
               /\ inflight' = inflight \cup {[id |-> issued + 1, lo |-> file]}
         /\ ~(now - last_update > watcher_delay) =>
               /\ issued' = issued
               /\ inflight' = inflight]_vars

\* A second watch callback arrives exactly watcher_delay after an accepted one
\* and is rejected.
C1_Witness ==
    /\ step.op = "trigger"
    /\ ~step.ok
    /\ accepted >= 1
    /\ now - last_update = watcher_delay

\* C2. Content immutability on failure: a read that completes with an error
\* leaves content as it was and calls the error handler once with the error;
\* the reload handler is not called.
C2_FailureKeepsContent ==
    (step.op = "read_done" /\ ~step.ok) =>
        /\ content = step.pre
        /\ step.calls = <<Call("error", handlers["error"], ReadError, step.pre)>>

\* A read fails while content holds a version of the file.
C2_Witness ==
    /\ step.op = "read_done"
    /\ ~step.ok
    /\ content \in FileContents

\* C3. Content replacement on success: a read that completes with payload C2
\* stores C2 and then calls the reload handler once with C2, which already
\* sees C2 in content; the error handler is not called.
C3_SuccessReplacesContent ==
    (step.op = "read_done" /\ step.ok) =>
        /\ content \in FileContents
        /\ VersionOf(content) <= file
        /\ step.calls = <<Call("reload", handlers["reload"], content, content)>>

\* A read replaces one version of the file by another.
C3_Witness ==
    /\ step.op = "read_done"
    /\ step.ok
    /\ step.pre \in FileContents
    /\ content # step.pre

\* C4. Stale-overwrite race: nothing orders the callbacks of overlapping reads.
\* A read that completes after a read issued later than itself still stores
\* its payload and becomes the source of content.
C4_NoCompletionOrder ==
    (step.op = "read_done" /\ step.ok /\ step.pre_src > step.id) =>
        /\ content = step.calls[1].arg
        /\ src.id = step.id

\* Two reads were in flight together, the later-issued one completed first,
\* and the earlier-issued one then replaced its payload by an older version.
C4_Witness ==
    /\ step.op = "read_done"
    /\ step.ok
    /\ step.pre_src > step.id
    /\ step.pre \in FileContents
    /\ content \in FileContents
    /\ VersionOf(content) < VersionOf(step.pre)

\* C5. After destroy() neither the reload handler nor the error handler is
\* called again, also when a read issued before destroy() completes afterwards.
C5_NoEventAfterDestroy ==
    close_calls >= 1 => step.calls = <<>>

\* C6. After destroy() content stays empty until set_content is called, also
\* across the completion of a read issued before destroy().
C6_EmptyAfterDestroy ==
    [][(close_calls >= 1 /\ content = Empty /\ step'.op # "set_content")
          => content' = Empty]_vars

\* C7. Initial-trigger bypass: for every watcher_delay the constructor issues
\* exactly one read without consulting the gate (no watch callback has run, and
\* last_update keeps its pre-dated value), and the completion of that read
\* stores the payload and fires reload, or fires error, like any other read.
C7_InitialRead ==
    /\ issued = 1 + accepted
    /\ step.op = "new" =>
          /\ inflight = {[id |-> 1, lo |-> 0]}
          /\ accepted = 0
          /\ ~triggered
          /\ last_update = now - watcher_delay
    /\ (step.op = "read_done" /\ step.id = 1 /\ step.ok) =>
          /\ content \in FileContents
          /\ src.id = 1
          /\ step.calls = <<Call("reload", handlers["reload"], content, content)>>
    /\ (step.op = "read_done" /\ step.id = 1 /\ ~step.ok) =>
          /\ content = step.pre
          /\ step.calls = <<Call("error", handlers["error"], ReadError, content)>>

\* With the largest watcher_delay, the construction read completes before any
\* watch callback was accepted.
C7_Witness ==
    /\ watcher_delay = MaxDelay
    /\ step.op = "read_done"
    /\ step.id = 1
    /\ step.ok
    /\ accepted = 0

\* C8, as claimed. Construction counts as an accepted reload: the first
\* accepted watch callback comes more than watcher_delay after construction
\* (construction is at time 0).
C8_ConstructionCounts ==
    accepted = 1 => last_accept > watcher_delay

\* C8, amended. Construction does not count for debouncing: last_update starts
\* at construction time - watcher_delay, so until a watch callback has been
\* accepted, a watch callback is accepted iff the clock has moved past the
\* construction time, whatever watcher_delay is.  With watcher_delay = 2 ticks
\* (100 ms), construction at 0 and watch callbacks at 1 (50 ms) and 3 (150 ms),
\* reads are issued at 0 and 1 only and the callback at 3 is rejected.
C8_ConstructionDoesNotCount ==
    [][step'.op = "trigger" =>
         /\ accepted = 0 => (step'.ok <=> now > 0)
         /\ (watcher_delay = 2 /\ accepted = 1 /\ last_accept = 1 /\ now = 3) =>
               /\ ~step'.ok
               /\ issued' = 2]_vars

\* watcher_delay = 2: the callback at 1 was accepted and the callback at 3 has
\* just been rejected; two reads were issued in all.
C8_Witness ==
    /\ watcher_delay = 2
    /\ step.op = "trigger"
    /\ ~step.ok
    /\ accepted = 1
    /\ last_accept = 1
    /\ now = 3
    /\ issued = 2

\* C9. The very first watch callback after construction is accepted however
\* little time has elapsed, also at the clock value of construction.
C9_FirstTriggerAccepted ==
    (step.op = "trigger" /\ step.first) => step.ok

\* Nothing is pending: fs.watch has reported the last change and every read
\* has called back.
Quiescent == inflight = {} /\ ~dirty

\* The hypotheses of C10: no read failed, destroy() was not called, and content
\* is what a read stored.
Undisturbed == ~read_failed /\ close_calls = 0 /\ src.id # 0

\* The gate is closed by an accepted watch callback whose window has not yet
\* run out: a callback now is suppressed by the debounce as designed (and not by
\* the first-callback case of C9).
InsideWindow == accepted >= 1 /\ now - last_update < watcher_delay

\* C10, as claimed. Once every change is reported and every read has called
\* back, with no failure and no destroy(), content is the file's final content.
\* Stated for the states inside the window of an accepted watch callback, where
\* a suppressed callback is one the debounce is meant to suppress.
C10_RefreshedOnEveryChange ==
    (Quiescent /\ Undisturbed /\ InsideWindow) => content = FileContent(file)

\* C10, amended. Under the same hypotheses content is the file's final content
\* when the read that completed last was issued after the last change, that is,
\* when the watch callback for that change was accepted and its read called
\* back last; a callback inside the debounce window is dropped even when it
\* reports a new change, and an overtaken read can store an older version.
C10_RefreshedWhenAccepted ==
    (Quiescent /\ Undisturbed /\ src.lo = file) => content = FileContent(file)

\* The file changed, the watch callback for the change was accepted, and its
\* read brought content up to date.
C10_Witness ==
    /\ Quiescent
    /\ Undisturbed
    /\ src.lo = file
    /\ file >= 1
    /\ src.id >= 2
    /\ content = FileContent(file)

\* The two event kinds of the documentation.
EventKinds == {"reload", "error"}

\* C11. Event kind validation: handle(kind, h) with a kind other than 'reload'
\* and 'error' throws the unsupported-event error and leaves the handler
\* bindings, and everything else, as they were.
C11_UnsupportedKindRejected ==
    [][(step'.op = "handle" /\ step'.kind \notin EventKinds) =>
          /\ ~step'.ok
          /\ handlers' = handlers
          /\ UNCHANGED <<now, watcher_delay, last_update, content, watcher, renderer,
                         file, dirty, inflight, issued>>]_vars

\* C12. handle('reload', h) and handle('error', h) succeed in every reachable
\* state, whatever was registered before, and leave h as the binding of that
\* kind and the binding of the other kind as it was.
C12_SupportedKindRebinds ==
    [][(step'.op = "handle" /\ step'.kind \in EventKinds) =>
          /\ step'.ok
          /\ handlers'[step'.kind] = step'.h
          /\ \A k \in EventKinds \ {step'.kind} : handlers'[k] = handlers[k]]_vars

\* C13. The watch handle is closed exactly once if destroy() was called at
\* least once and never otherwise, also when destroy() is called repeatedly.
C13_ClosedExactlyOnce ==
    /\ watcher = "open" => close_calls = 0
    /\ watcher = "closed" => close_calls = 1

\* C14. render(options) calls the current renderer once, with the content cached
\* at the moment of the call and the options, and returns or throws at once
\* (without a renderer it throws and calls nothing); it calls neither handler,
\* whatever the renderer does, and changes nothing of the object; no other
\* operation calls the renderer.
C14_RenderIsDirectCall ==
    [][/\ step'.op = "render" =>
            /\ renderer \in Renderers =>
                  step'.rendered = <<[renderer |-> renderer, content |-> content,
                                      options |-> Options]>>
            /\ renderer \notin Renderers => (step'.rendered = <<>> /\ ~step'.ok)
            /\ step'.calls = <<>>
            /\ UNCHANGED <<content, last_update, handlers, renderer, inflight, issued,
                           watcher, watcher_delay>>
       /\ step'.op # "render" => step'.rendered = <<>>]_vars

\* A render after a successful read hands the renderer the content just read;
\* the renderer throws.
C14_Witness ==
    /\ step.op = "render"
    /\ ~step.ok
    /\ src.id >= 1
    /\ Len(step.rendered) = 1
    /\ step.rendered[1].content = content
    /\ content \in FileContents

\* C15. last_update changes only in the step of an accepted watch callback,
\* which sets it to the clock at acceptance; a rejected callback, a read's
\* completion, a watch failure, set_content and destroy leave it as it was.
C15_LastUpdateOnlyOnAccept ==
    [][/\ (step'.op = "trigger" /\ step'.ok) => last_update' = now'
       /\ ~(step'.op = "trigger" /\ step'.ok) => last_update' = last_update]_vars

\* A watch callback has just been rejected after an accepted one, and
\* last_update still is the time of the accepted one.
C15_Witness ==
    /\ step.op = "trigger"
    /\ ~step.ok
    /\ accepted >= 1
    /\ now > last_update
    /\ last_update >= last_accept

\* C16. At most one watch callback is accepted per debounce window: the clock
\* values of any two accepted watch callbacks differ by more than
\* watcher_delay (stated for consecutive ones; the clock never goes back).
C16_OneAcceptPerWindow ==
    [][(step'.op = "trigger" /\ step'.ok /\ accepted >= 1) =>
          /\ last_accept' - last_accept > watcher_delay
          /\ now' >= now]_vars

\* A second watch callback is accepted while the construction read is still in
\* flight.
C16_Witness ==
    /\ step.op = "trigger"
    /\ step.ok
    /\ accepted = 2
    /\ \E r \in inflight : r.id = 1

\* C17. No automatic retry: the number of reads issued is one plus the number
\* of accepted watch callbacks, and neither a read's completion nor a watch
\* failure issues a read.
C17_NoRetry ==
    [][/\ issued' = 1 + accepted'
       /\ step'.op \in {"read_done", "watch_error"} =>
             /\ issued' = issued
             /\ inflight' \subseteq inflight]_vars

\* A read issued by a watch callback has failed and nothing is in flight.
C17_Witness ==
    /\ step.op = "read_done"
    /\ ~step.ok
    /\ step.id >= 2
    /\ inflight = {}
    /\ issued = 1 + accepted

\* C18. A failure of the watch subscription calls the error handler once with
\* the failure, leaves content and last_update as they were, issues no read and
\* leaves the watcher open, so that the next watch callback still goes through
\* the gate.
C18_WatchFailureReported ==
    [][step'.op = "watch_error" =>
          /\ step'.calls = <<Call("error", handlers["error"], WatchError, content)>>
          /\ watcher' = "open"
          /\ UNCHANGED <<content, last_update, inflight, issued, watcher_delay>>]_vars

\* After an accepted watch callback the subscription fails while the gate is
\* open again: the next watch callback will be accepted.
C18_Witness ==
    /\ step.op = "watch_error"
    /\ watcher = "open"
    /\ accepted >= 1
    /\ now - last_update > watcher_delay

\* C19. Handler dispatch is bound at delivery: a read's completion, and a watch
\* failure, make one call, to the handler bound for that kind when the callback
\* runs, not to the one bound when the read was issued.
C19_DispatchAtDelivery ==
    step.op \in {"read_done", "watch_error"} =>
        /\ Len(step.calls) = 1
        /\ step.calls[1].kind = (IF step.ok THEN "reload" ELSE "error")
        /\ step.calls[1].handler = handlers[step.calls[1].kind]

\* The construction read, issued under the default handlers, completes after
\* handle('reload', h1) and calls h1.
C19_Witness ==
    /\ step.op = "read_done"
    /\ step.id = 1
    /\ step.ok
    /\ step.calls[1].handler = "h1"

\* C20. set_content(c) stores c in every state and does nothing else: no handler
\* call, no read, no pass through the gate; last_update, the renderer, the
\* handler bindings and the reads in flight stay as they were.
C20_SetContentOnly ==
    [][step'.op = "set_content" =>
          /\ content' = Custom
          /\ step'.calls = <<>>
          /\ step'.rendered = <<>>
          /\ UNCHANGED <<now, watcher_delay, last_update, watcher, handlers, renderer,
                         inflight, issued, accepted, triggered>>]_vars

\* set_content after destroy(), with a read still in flight.
C20_Witness ==
    /\ step.op = "set_content"
    /\ content = Custom
    /\ close_calls >= 1
    /\ inflight # {}

====
